---- MODULE Spec2Model ----
(***************************************************************************)
(* A model of opera.util.logger (src/src/opera/util/logger.py): the        *)
(* PgeLogger class, its in-memory log stream, its tally of records by      *)
(* severity, and the files it persists the stream to.                      *)
(*                                                                         *)
(* Text is modelled character by character: a Python str is a sequence of  *)
(* one-character strings, so that formatting a record (write), parsing it  *)
(* back (resync: split, strip, title) and rendering numbers (str) are      *)
(* computed as the code computes them.                                     *)
(***************************************************************************)
EXTENDS Integers, Sequences, FiniteSets, TLC

(***************************************************************************)
(* Python str operations used by the logger                                *)
(***************************************************************************)
LowerCase == <<"a","b","c","d","e","f","g","h","i","j","k","l","m","n","o","p","q","r","s","t","u","v","w","x","y","z">>
UpperCase == <<"A","B","C","D","E","F","G","H","I","J","K","L","M","N","O","P","Q","R","S","T","U","V","W","X","Y","Z">>
Digits == <<"0","1","2","3","4","5","6","7","8","9">>
Whitespace == {" ", "\n", "\t"}

LowerSet == {LowerCase[i] : i \in 1..26}
UpperSet == {UpperCase[i] : i \in 1..26}
IsCased(c) == c \in LowerSet \/ c \in UpperSet

\* str.upper() / str.lower() of one character
ToUpper == [c \in LowerSet |-> UpperCase[CHOOSE i \in 1..26 : LowerCase[i] = c]]
ToLower == [c \in UpperSet |-> LowerCase[CHOOSE i \in 1..26 : UpperCase[i] = c]]
UpperChar(c) == IF c \in LowerSet THEN ToUpper[c] ELSE c
LowerChar(c) == IF c \in UpperSet THEN ToLower[c] ELSE c

\* str.lower()
StrLower(str) == [i \in 1..Len(str) |-> LowerChar(str[i])]

\* str.title(): a cased character is upper-cased when the character before
\* it is not cased (or there is none), and lower-cased otherwise.
StrTitle(str) ==
    [i \in 1..Len(str) |->
        IF i > 1 /\ IsCased(str[i-1]) THEN LowerChar(str[i]) ELSE UpperChar(str[i])]

\* str.strip(): leading and trailing whitespace removed
StrStrip(str) ==
    LET keep == {i \in 1..Len(str) : str[i] \notin Whitespace}
    IN  IF keep = {} THEN <<>>
        ELSE LET lo == CHOOSE i \in keep : \A j \in keep : i <= j
                 hi == CHOOSE i \in keep : \A j \in keep : i >= j
             IN  SubSeq(str, lo, hi)

\* str.split(sep) for a one-character separator: the pieces between the
\* separators, empty pieces included ("a\n".split("\n") = ["a", ""]).
StrSplit(str, sep) ==
    LET at == {i \in 1..Len(str) : str[i] = sep}
        n  == Cardinality(at)
        \* the k-th separator's position; 0 before the first, Len+1 after the last
        cut(k) == IF k = 0 THEN 0
                  ELSE IF k = n + 1 THEN Len(str) + 1
                  ELSE CHOOSE p \in at : Cardinality({q \in at : q < p}) = k - 1
    IN  [k \in 1..(n + 1) |-> SubSeq(str, cut(k - 1) + 1, cut(k) - 1)]

\* str(n) for an int
RECURSIVE NatToStr(_)
NatToStr(n) == IF n < 10 THEN <<Digits[n + 1]>>
               ELSE NatToStr(n \div 10) \o <<Digits[(n % 10) + 1]>>
IntToStr(n) == IF n < 0 THEN <<"-">> \o NatToStr(0 - n) ELSE NatToStr(n)

(***************************************************************************)
(* Text literals of the source                                             *)
(***************************************************************************)
Debug    == <<"D","e","b","u","g">>
Info     == <<"I","n","f","o">>
Warning  == <<"W","a","r","n","i","n","g">>
Critical == <<"C","r","i","t","i","c","a","l">>

\* "PgeLogger": the module name the logger logs its own records under
PgeLoggerName == <<"P","g","e","L","o","g","g","e","r">>
\* f"pge_init::{basename(__file__)}"
DefaultWorkflow == <<"p","g","e","_","i","n","i","t",":",":","l","o","g","g","e","r",".","p","y">>
\* "Closing log file "
TxtClosing == <<"C","l","o","s","i","n","g"," ","l","o","g"," ","f","i","l","e"," ">>
\* "No messages logged with severity: '"
TxtNoMessages == <<"N","o"," ","m","e","s","s","a","g","e","s"," ","l","o","g","g","e","d"," ","w","i","t","h"," ","s","e","v","e","r","i","t","y",":"," ","'">>
\* "Could not increment severity level: '"
TxtCouldNotIncrement == <<"C","o","u","l","d"," ","n","o","t"," ","i","n","c","r","e","m","e","n","t"," ","s","e","v","e","r","i","t","y"," ","l","e","v","e","l",":"," ","'">>
\* "' "
TxtQuoteSpace == <<"'"," ">>
\* "Unable to resync the 'log_count_by_severity' dict."
TxtResyncFailed == <<"U","n","a","b","l","e"," ","t","o"," ","r","e","s","y","n","c"," ","t","h","e"," ","'","l","o","g","_","c","o","u","n","t","_","b","y","_","s","e","v","e","r","i","t","y","'"," ","d","i","c","t",".">>
\* "Writing log stream to "
TxtWritingTo == <<"W","r","i","t","i","n","g"," ","l","o","g"," ","s","t","r","e","a","m"," ","t","o"," ">>
\* "Moving logging to "
TxtMovingTo == <<"M","o","v","i","n","g"," ","l","o","g","g","i","n","g"," ","t","o"," ">>
\* ". "
TxtDotSpace == <<"."," ">>
\* " will be closed and saved."
TxtWillBeClosed == <<" ","w","i","l","l"," ","b","e"," ","c","l","o","s","e","d"," ","a","n","d"," ","s","a","v","e","d",".">>
\* "overall.log_messages."
TxtOverallLogMessages == <<"o","v","e","r","a","l","l",".","l","o","g","_","m","e","s","s","a","g","e","s",".">>
\* "overall."
TxtOverall == <<"o","v","e","r","a","l","l",".">>
\* "overall.elapsed_seconds"
TxtOverallElapsed == <<"o","v","e","r","a","l","l",".","e","l","a","p","s","e","d","_","s","e","c","o","n","d","s">>
\* ": "
TxtColonSpace == <<":"," ">>

(***************************************************************************)
(* Program constants                                                       *)
(***************************************************************************)
\* PgeLogger.LOGGER_CODE_BASE
LOGGER_CODE_BASE == 900000
\* the modulus of get_severity_from_error_code
CODE_MODULUS == 10000
\* the offset log_save_and_close and move log their own record under
SAVE_OFFSET == 900

\* opera.util.error_codes: the three ascending range thresholds and the codes
\* the logger uses for its own records (the Info-range and Warning-range
\* members of ErrorCode).
DEBUG_RANGE_START == 1000
WARNING_RANGE_START == 2000
CRITICAL_RANGE_START == 3000
SUMMARY_STATS_MESSAGE == 9
CLOSING_LOG_FILE == 29
LOGGING_REQUESTED_SEVERITY_NOT_FOUND == 2001
LOGGING_SOURCE_FILE_DOES_NOT_EXIST == 2002
LOGGING_COULD_NOT_INCREMENT_SEVERITY == 2003
LOGGING_RESYNC_FAILED == 2004

\* opera.util.time.get_current_iso_time(): an ISO-8601 time tag; it holds no
\* comma and no newline.
get_current_iso_time == <<"0","0",":","0","0","Z">>
\* opera.util.time.get_time_for_filename(now): YYYYMMDDTHHMMSS
get_time_for_filename == <<"2","0","2","1","T","0","0">>
\* opera.util.usage_metrics.get_os_metrics(): metric name -> value
get_os_metrics == << [name |-> <<"c","p","u">>, value |-> 3],
                     [name |-> <<"r","s","s">>, value |-> 42] >>

\* default_log_file_name(): f"pge_{log_datetime_str}.log"
default_log_file_name ==
    <<"p","g","e","_">> \o get_time_for_filename \o <<".","l","o","g">>

\* the classifier comparing the code itself, not its remainder
get_severity_from_error_code_unreduced(error_code) ==
    IF error_code < DEBUG_RANGE_START THEN Info
    ELSE IF error_code < WARNING_RANGE_START THEN Debug
    ELSE IF error_code < CRITICAL_RANGE_START THEN Warning
    ELSE Critical

\* get_severity_from_error_code(error_code)
get_severity_from_error_code(error_code) ==
    LET error_code_offset == error_code % CODE_MODULUS
    IN  IF error_code_offset < DEBUG_RANGE_START THEN Info
        ELSE IF error_code_offset < WARNING_RANGE_START THEN Debug
        ELSE IF error_code_offset < CRITICAL_RANGE_START THEN Warning
        ELSE Critical

\* the severity string left as it was given
standardize_severity_string_verbatim(severity) == severity

\* standardize_severity_string(severity)
standardize_severity_string(severity) == StrTitle(severity)

(***************************************************************************)
(* The logger's methods.  Each is a function of a record s that holds the  *)
(* logger's fields and its surroundings:                                   *)
(*   log_stream, pos, closed   the StringIO: its text, position and flag   *)
(*   log_count_by_severity     the tally                                   *)
(*   log_filename, workflow, error_code_base, start_time                   *)
(*   files                     the file system: path -> [exists, data]     *)
(*   now                       what time.monotonic() reads during the call *)
(*   io                        what the next open() of a file meets        *)
(*   exc, ret                  the exception raised so far, the value      *)
(*                             returned                                    *)
(*   ev                        the effects of the call so far, in order    *)
(* A statement that follows a raised exception does not run: Then(s, F)    *)
(* applies F only when s holds no exception.                               *)
(***************************************************************************)
NoExc == [type |-> "none", arg |-> <<>>]
Raise(s, type, arg) ==
    [s EXCEPT !.exc = [type |-> type, arg |-> arg],
              !.ev = Append(@, <<"raise", <<type>>>>)]
Then(s, F(_)) == IF s.exc.type # "none" THEN s ELSE F(s)
Event(s, kind, what) == [s EXCEPT !.ev = Append(@, <<kind, what>>)]

SeverityKeys == {Debug, Info, Warning, Critical}
\* the order of the tally's keys (a dict keeps insertion order)
SeverityOrder == <<Debug, Info, Warning, Critical>>

\* PgeLogger._make_blank_log_count_by_severity_dict()
make_blank_log_count_by_severity_dict == [k \in SeverityKeys |-> 0]

\* io.StringIO.write(text): at the position, over what is there, moving the
\* position; a closed stream raises ValueError.
StringIO_write(s, text) ==
    IF s.closed THEN Raise(s, "ValueError", <<>>)
    ELSE LET old == s.log_stream
             end == s.pos + Len(text)
         IN  Event([s EXCEPT !.log_stream = SubSeq(old, 1, s.pos) \o text
                                              \o SubSeq(old, end + 1, Len(old)),
                             !.pos = end],
                   "write", <<>>)

\* the record write() renders:
\* f'{time_tag}, {severity}, {workflow}, {module},{str(error_code)}, {error_location}, "{description}"\n'
FormatRecord(severity, workflow, module, error_code, error_location, description) ==
    get_current_iso_time \o <<",", " ">> \o severity \o <<",", " ">> \o workflow
      \o <<",", " ">> \o module \o <<",">> \o IntToStr(error_code) \o <<",", " ">>
      \o error_location \o <<",", " ", "\"">> \o description \o <<"\"", "\n">>

\* write(log_stream, severity, workflow, module, error_code, error_location, description)
write(s, severity, workflow, module, error_code, error_location, description) ==
    StringIO_write(s, FormatRecord(severity, workflow, module, error_code,
                                   error_location, description))

\* caller.f_code.co_filename + ':' + str(caller.f_lineno), of the frame the
\* back frames lead to
CallerFile == <<"f">>
CallerLine == 7
Location == CallerFile \o <<":">> \o IntToStr(CallerLine)

RECURSIVE PgeLogger_write(_, _, _, _, _)

\* PgeLogger.warning(module, error_code_offset, description)
warning(s, module, error_code_offset, description) ==
    PgeLogger_write(s, Warning, module, error_code_offset, description)

\* increment that drops an unknown severity without a word
increment_log_count_by_severity_silent(s, severity0) ==
    LET severity == standardize_severity_string(severity0)
    IN  IF severity \in DOMAIN s.log_count_by_severity
        THEN Event([s EXCEPT !.log_count_by_severity[severity] = @ + 1],
                   "count", severity)
        ELSE s

\* increment lowering the count it should raise
increment_log_count_by_severity_lowering(s, severity0) ==
    LET severity == standardize_severity_string(severity0)
    IN  IF severity \in DOMAIN s.log_count_by_severity
        THEN Event([s EXCEPT !.log_count_by_severity[severity] = @ - 1],
                   "count", severity)
        ELSE warning(s, PgeLoggerName, LOGGING_COULD_NOT_INCREMENT_SEVERITY,
                     TxtCouldNotIncrement \o severity \o TxtQuoteSpace)

\* PgeLogger.increment_log_count_by_severity(severity)
increment_log_count_by_severity(s, severity0) ==
    LET severity == standardize_severity_string(severity0)
    IN  IF severity \in DOMAIN s.log_count_by_severity
        THEN Event([s EXCEPT !.log_count_by_severity[severity] = @ + 1],
                   "count", severity)
        ELSE \* except KeyError
             warning(s, PgeLoggerName, LOGGING_COULD_NOT_INCREMENT_SEVERITY,
                     TxtCouldNotIncrement \o severity \o TxtQuoteSpace)

\* write() appending its record without counting it
PgeLogger_write_uncounted(s, severity0, module, error_code_offset, description) ==
    LET severity == standardize_severity_string(severity0)
    IN  write(s, severity, s.workflow, module, s.error_code_base + error_code_offset,
              Location, description)

\* write() closing the stream after a Critical record
PgeLogger_write_closing(s, severity0, module, error_code_offset, description) ==
    LET severity == standardize_severity_string(severity0)
        s1 == increment_log_count_by_severity(s, severity)
        s2 == Then(s1, LAMBDA x : write(x, severity, x.workflow, module,
                                        x.error_code_base + error_code_offset,
                                        Location, description))
    IN  IF severity = Critical
        THEN Then(s2, LAMBDA x : Event([x EXCEPT !.closed = TRUE], "close", <<>>))
        ELSE s2

\* PgeLogger.write(severity, module, error_code_offset, description)
PgeLogger_write(s, severity0, module, error_code_offset, description) ==
    LET severity == standardize_severity_string(severity0)
        s1 == increment_log_count_by_severity(s, severity)
    IN  Then(s1, LAMBDA x : write(x, severity, x.workflow, module,
                                  x.error_code_base + error_code_offset,
                                  Location, description))

\* PgeLogger.info / debug (module, error_code_offset, description)
info(s, module, error_code_offset, description) ==
    PgeLogger_write(s, Info, module, error_code_offset, description)
debug(s, module, error_code_offset, description) ==
    PgeLogger_write(s, Debug, module, error_code_offset, description)

\* log() escalating a Critical-range offset the way critical() does
log_escalating(s, module, error_code_offset, description) ==
    LET severity == get_severity_from_error_code(error_code_offset)
        s1 == PgeLogger_write(s, severity, module, error_code_offset, description)
    IN  IF severity = Critical
        THEN Then(s1, LAMBDA x : Raise([x EXCEPT !.closed = TRUE], "RuntimeError",
                                       description))
        ELSE s1

\* log() writing the code of the reduced offset
log_reduced_offset(s, module, error_code_offset, description) ==
    PgeLogger_write(s, get_severity_from_error_code(error_code_offset), module,
                    error_code_offset % CODE_MODULUS, description)

\* PgeLogger.log(module, error_code_offset, description)
log(s, module, error_code_offset, description) ==
    PgeLogger_write(s, get_severity_from_error_code(error_code_offset), module,
                    error_code_offset, description)

\* get_log_count_by_severity answering 0 for an unknown severity without a
\* warning
get_log_count_by_severity_quiet(s, severity0) ==
    LET severity == standardize_severity_string(severity0)
    IN  IF severity \in DOMAIN s.log_count_by_severity
        THEN [s EXCEPT !.ret = s.log_count_by_severity[severity]]
        ELSE [s EXCEPT !.ret = 0]

\* PgeLogger.get_log_count_by_severity(severity)
get_log_count_by_severity(s, severity0) ==
    LET severity == standardize_severity_string(severity0)
    IN  IF severity \in DOMAIN s.log_count_by_severity
        THEN [s EXCEPT !.ret = s.log_count_by_severity[severity]]
        ELSE \* except KeyError
             Then(warning(s, PgeLoggerName, LOGGING_REQUESTED_SEVERITY_NOT_FOUND,
                          TxtNoMessages \o severity \o TxtQuoteSpace),
                  LAMBDA x : [x EXCEPT !.ret = 0])

\* save_stream_to_file leaving the stream rewound to its start
save_stream_to_file_rewound(s, filename) ==
    IF s.closed THEN Raise(s, "ValueError", <<>>)
    ELSE Event([s EXCEPT !.files[filename] =
                             [exists |-> TRUE, data |-> s.log_stream],
                         !.pos = 0],
               "save", filename)

\* save_stream_to_file opening the file to append to it
save_stream_to_file_appending(s, filename) ==
    IF s.closed THEN Raise(s, "ValueError", <<>>)
    ELSE Event([s EXCEPT !.files[filename] =
                             [exists |-> TRUE, data |-> @.data \o s.log_stream],
                         !.pos = Len(s.log_stream)],
               "save", filename)

\* PgeLogger.save_stream_to_file(filename): open(filename, 'w') truncates the
\* file; seek(0) and shutil.copyfileobj copy the stream from its start to its
\* end, which leaves the position at the end.  s.io decides whether open()
\* fails, or the write to the opened file does.
save_stream_to_file(s, filename) ==
    IF s.io = "open_fails" THEN Raise(s, "OSError", filename)
    ELSE LET opened == Event([s EXCEPT !.files[filename] =
                                           [exists |-> TRUE, data |-> <<>>]],
                             "open", filename)
         IN  IF opened.closed
             THEN \* log_stream.seek(0) on a closed stream
                  Raise(opened, "ValueError", <<>>)
             ELSE LET sought == [opened EXCEPT !.pos = 0]
                      data == SubSeq(sought.log_stream, sought.pos + 1,
                                     Len(sought.log_stream))
                      read == [sought EXCEPT !.pos = Len(sought.log_stream)]
                  IN  IF s.io = "write_fails"
                      THEN Raise(read, "OSError", filename)
                      ELSE Event([read EXCEPT !.files[filename].data = data],
                                 "save", filename)

\* PgeLogger.log_one_metric(module, metric_name, metric_value)
log_one_metric(s, module, metric_name, metric_value) ==
    log(s, module, SUMMARY_STATS_MESSAGE,
        metric_name \o TxtColonSpace \o IntToStr(metric_value))

\* one log_one_metric call per item of a dict, in the dict's order
RECURSIVE LogMetrics(_, _)
LogMetrics(s, items) ==
    IF items = <<>> \/ s.exc.type # "none" THEN s
    ELSE LogMetrics(log_one_metric(s, PgeLoggerName, Head(items).name,
                                   Head(items).value),
                    Tail(items))

\* write_log_summary subtracting the reading from the start time
write_log_summary_backwards(s) ==
    LET copy_of_log_count_by_severity == s.log_count_by_severity
        totals == [i \in 1..Len(SeverityOrder) |->
                     [name |-> TxtOverallLogMessages \o StrLower(SeverityOrder[i]),
                      value |-> copy_of_log_count_by_severity[SeverityOrder[i]]]]
        s1 == LogMetrics(s, totals)
        s2 == Then(s1, LAMBDA x : Event(x, "metrics", <<>>))
        s3 == Then(s2, LAMBDA x :
                  LogMetrics(x, [i \in 1..Len(get_os_metrics) |->
                                   [name |-> TxtOverall \o get_os_metrics[i].name,
                                    value |-> get_os_metrics[i].value]]))
        s4 == Then(s3, LAMBDA x :
                  log_one_metric(Event(x, "clock", <<>>), PgeLoggerName,
                                 TxtOverallElapsed, x.start_time - x.now))
    IN  Then(s4, LAMBDA x : Event(x, "done", <<"write_log_summary">>))

\* write_log_summary reporting the live tally instead of the copy it took
write_log_summary_live(s) ==
    LET total(x, i) ==
            log_one_metric(x, PgeLoggerName,
                           TxtOverallLogMessages \o StrLower(SeverityOrder[i]),
                           x.log_count_by_severity[SeverityOrder[i]])
        s1 == Then(Then(Then(total(s, 1), LAMBDA x : total(x, 2)),
                        LAMBDA x : total(x, 3)),
                   LAMBDA x : total(x, 4))
        s2 == Then(s1, LAMBDA x : Event(x, "metrics", <<>>))
        s3 == Then(s2, LAMBDA x :
                  LogMetrics(x, [i \in 1..Len(get_os_metrics) |->
                                   [name |-> TxtOverall \o get_os_metrics[i].name,
                                    value |-> get_os_metrics[i].value]]))
        s4 == Then(s3, LAMBDA x :
                  log_one_metric(Event(x, "clock", <<>>), PgeLoggerName,
                                 TxtOverallElapsed, x.now - x.start_time))
    IN  Then(s4, LAMBDA x : Event(x, "done", <<"write_log_summary">>))

\* PgeLogger.write_log_summary()
write_log_summary(s) ==
    LET copy_of_log_count_by_severity == s.log_count_by_severity
        totals == [i \in 1..Len(SeverityOrder) |->
                     [name |-> TxtOverallLogMessages \o StrLower(SeverityOrder[i]),
                      value |-> copy_of_log_count_by_severity[SeverityOrder[i]]]]
        s1 == LogMetrics(s, totals)
        s2 == Then(s1, LAMBDA x : Event(x, "metrics", <<>>))
        s3 == Then(s2, LAMBDA x :
                  LogMetrics(x, [i \in 1..Len(get_os_metrics) |->
                                   [name |-> TxtOverall \o get_os_metrics[i].name,
                                    value |-> get_os_metrics[i].value]]))
        \* elapsed_time_seconds = time.monotonic() - self.start_time
        s4 == Then(s3, LAMBDA x :
                  log_one_metric(Event(x, "clock", <<>>), PgeLoggerName,
                                 TxtOverallElapsed, x.now - x.start_time))
    IN  Then(s4, LAMBDA x : Event(x, "done", <<"write_log_summary">>))

\* close_log_stream saving the stream before it writes the summary
close_log_stream_saving_first(s) ==
    LET called == Event(s, "call", <<"close_log_stream">>)
    IN  IF ~called.closed
        THEN LET s1 == info(called, PgeLoggerName, CLOSING_LOG_FILE,
                            TxtClosing \o called.log_filename)
                 s2 == Then(s1, LAMBDA x : Event(x, "done", <<"closing_record">>))
                 s3 == Then(s2, LAMBDA x : save_stream_to_file(x, x.log_filename))
                 s4 == Then(s3, LAMBDA x : Event(x, "done", <<"close_persist">>))
                 s5 == Then(s4, write_log_summary)
             IN  Then(s5, LAMBDA x : Event([x EXCEPT !.closed = TRUE], "close", <<>>))
        ELSE called

\* close_log_stream without its guard on the closed flag
close_log_stream_unguarded(s) ==
    LET called == Event(s, "call", <<"close_log_stream">>)
        s1 == info(called, PgeLoggerName, CLOSING_LOG_FILE,
                   TxtClosing \o called.log_filename)
        s2 == Then(s1, LAMBDA x : Event(x, "done", <<"closing_record">>))
        s3 == Then(s2, write_log_summary)
        s4 == Then(s3, LAMBDA x : save_stream_to_file(x, x.log_filename))
        s5 == Then(s4, LAMBDA x : Event(x, "done", <<"close_persist">>))
    IN  Then(s5, LAMBDA x : Event([x EXCEPT !.closed = TRUE], "close", <<>>))

\* PgeLogger.close_log_stream().  A StringIO object is true whatever it
\* holds, so the guard is the stream's closed flag alone.
close_log_stream(s) ==
    LET called == Event(s, "call", <<"close_log_stream">>)
    IN  IF ~called.closed
        THEN LET s1 == info(called, PgeLoggerName, CLOSING_LOG_FILE,
                            TxtClosing \o called.log_filename)
                 s2 == Then(s1, LAMBDA x : Event(x, "done", <<"closing_record">>))
                 s3 == Then(s2, write_log_summary)
                 s4 == Then(s3, LAMBDA x : save_stream_to_file(x, x.log_filename))
                 s5 == Then(s4, LAMBDA x : Event(x, "done", <<"close_persist">>))
             IN  Then(s5, LAMBDA x : Event([x EXCEPT !.closed = TRUE], "close", <<>>))
        ELSE called

\* critical() raising before it closes the log
critical_raising_first(s, module, error_code_offset, description) ==
    LET s1 == PgeLogger_write(s, Critical, module, error_code_offset, description)
    IN  Then(s1, LAMBDA x : Raise(x, "RuntimeError", description))

\* PgeLogger.critical(module, error_code_offset, description)
critical(s, module, error_code_offset, description) ==
    LET s1 == PgeLogger_write(s, Critical, module, error_code_offset, description)
        s2 == Then(s1, close_log_stream)
    IN  Then(s2, LAMBDA x : Raise(x, "RuntimeError", description))

\* PgeLogger.log_save_and_close()
log_save_and_close(s) ==
    LET s1 == info(s, PgeLoggerName, SAVE_OFFSET, TxtWritingTo \o s.log_filename)
    IN  Then(s1, LAMBDA x : save_stream_to_file(x, x.log_filename))

\* move() taking the new name before it saves
move_saving_to_new(s, new_filename) ==
    LET s1 == info(s, PgeLoggerName, SAVE_OFFSET,
                   TxtMovingTo \o new_filename \o TxtDotSpace \o s.log_filename
                     \o TxtWillBeClosed)
        s2 == Then(s1, LAMBDA x : [x EXCEPT !.log_filename = new_filename])
    IN  Then(s2, log_save_and_close)

\* PgeLogger.move(new_filename)
move(s, new_filename) ==
    LET s1 == info(s, PgeLoggerName, SAVE_OFFSET,
                   TxtMovingTo \o new_filename \o TxtDotSpace \o s.log_filename
                     \o TxtWillBeClosed)
        s2 == Then(s1, log_save_and_close)
    IN  Then(s2, LAMBDA x : [x EXCEPT !.log_filename = new_filename])

\* append_text_from_another_file stripping the text it read
append_text_from_another_file_stripped(s, source_filename) ==
    IF s.files[source_filename].exists
    THEN StringIO_write(s, StrStrip(s.files[source_filename].data))
    ELSE Raise(s, "AttributeError", <<"l","o","g","g","e","r">>)

\* PgeLogger.append_text_from_another_file(source_filename).  The else branch
\* reads self.logger, an attribute PgeLogger never sets: AttributeError.
append_text_from_another_file(s, source_filename) ==
    IF s.files[source_filename].exists
    THEN StringIO_write(s, s.files[source_filename].data)
    ELSE Raise(s, "AttributeError", <<"l","o","g","g","e","r">>)

\* the loop of resync_log_count_by_severity over the lines read at its start
RECURSIVE ResyncLoop(_, _, _, _)
ResyncLoop(s, csv_reader, i, count_by_severity) ==
    IF s.exc.type # "none" THEN s
    ELSE IF i > Len(csv_reader)
    THEN [s EXCEPT !.log_count_by_severity = count_by_severity]
    ELSE LET row == StrSplit(csv_reader[i], ",")
         IN  IF Len(row) >= 2
             THEN LET severity == standardize_severity_string(StrStrip(row[2]))
                  IN  IF severity \in DOMAIN count_by_severity
                      THEN ResyncLoop(s, csv_reader, i + 1,
                                      [count_by_severity EXCEPT ![severity] = @ + 1])
                      ELSE \* except KeyError
                           ResyncLoop(warning(s, PgeLoggerName, LOGGING_RESYNC_FAILED,
                                              TxtResyncFailed),
                                      csv_reader, i + 1, count_by_severity)
             ELSE ResyncLoop(s, csv_reader, i + 1, count_by_severity)

\* resync counting on top of the tally it finds
resync_log_count_by_severity_accumulating(s) ==
    IF s.closed THEN Raise(s, "ValueError", <<>>)
    ELSE ResyncLoop(s, StrSplit(s.log_stream, "\n"), 1, s.log_count_by_severity)

\* PgeLogger.resync_log_count_by_severity(): getvalue() of a closed stream
\* raises ValueError.
resync_log_count_by_severity(s) ==
    IF s.closed THEN Raise(s, "ValueError", <<>>)
    ELSE ResyncLoop(s, StrSplit(s.log_stream, "\n"), 1,
                    make_blank_log_count_by_severity_dict)

(***************************************************************************)
(* State                                                                   *)
(***************************************************************************)
VARIABLES
    log_stream,             \* self.log_stream: the text of the StringIO
    pos,                    \* self.log_stream: its position
    closed,                 \* self.log_stream.closed
    log_count_by_severity,  \* self.log_count_by_severity
    log_filename,           \* self.log_filename
    workflow,               \* self._workflow
    error_code_base,        \* self._error_code_base
    start_time,             \* self.start_time
    files,                  \* the file system: path -> [exists, data]
    now,                    \* the last reading of time.monotonic()
    phase,                  \* "running", or "exited" once the exit hook ran
    disk,                   \* "reliable": every file write succeeds; "faulty"
    ctor,                   \* the arguments the constructor was called with
    last,                   \* the last call: its name, arguments and outcome
    hist,                   \* what has happened over the whole run
    nOps,                   \* the number of calls made
    budget                  \* the number of calls the workflow makes at most

vars == <<log_stream, pos, closed, log_count_by_severity, log_filename, workflow,
          error_code_base, start_time, files, now, phase, disk, ctor, last, hist,
          nOps, budget>>

(***************************************************************************)
(* Bounds and inputs                                                       *)
(***************************************************************************)
MaxOps == 2
MaxElapsed == 1
\* the calls of a run that only logs, saves, moves, appends, resyncs and closes
MaxOpsLong == 3

PathA == <<"a">>
PathB == <<"b">>
ExtPath == <<"x">>
MissingPath == <<"n">>
Paths == {PathA, PathB, default_log_file_name, ExtPath, MissingPath}

\* the text an external process left in ExtPath: two records
ExtText ==
    <<"0","0",":","0","1","Z",","," ","W","a","r","n","i","n","g",","," ","s","a","s",","," ","X",",","5",","," ","g",":","1",","," ","\"","e","\"","\n">>
    \o <<"0","0",":","0","2","Z",","," ","I","n","f","o",","," ","s","a","s",","," ","X",",","6",","," ","g",":","2",","," ","\"","e","\"","\n">>

ModuleArg == <<"M">>
DescOk == <<"o","k">>
DescComma == <<"a",",","b">>
\* severity arguments: canonical in several letter cases, unknown, padded
SevDebugLower == <<"d","e","b","u","g">>
SevInfoUpper == <<"I","N","F","O">>
SevWarningMixed == <<"w","A","r","N","i","n","g">>
SevFatal == <<"f","a","t","a","l">>
SevInfoPadded == <<" ","i","n","f","o">>
SevCriticalLower == <<"c","r","i","t","i","c","a","l">>
IncrementSeverityArgs == {SevDebugLower, SevInfoUpper, SevWarningMixed, Critical, SevFatal}
GetCountSeverityArgs == {SevInfoUpper, SevWarningMixed, SevFatal}
WriteSeverityArgs == {SevCriticalLower, SevFatal, SevInfoPadded}
InfoDescriptions == {DescOk, DescComma}
NamedOffsets == {1}
LogOffsets == {1, 1000, 2000, 13000}
SavePaths == {PathA, PathB}
MovePaths == {PathB}
AppendPaths == {ExtPath, MissingPath}
FirstReadings == {3}

\* constructor arguments: given or not (None)
NotGivenStr == [given |-> FALSE, value |-> <<>>]
NotGivenInt == [given |-> FALSE, value |-> 0]
GivenWorkflow == [given |-> TRUE, value |-> <<"w">>]
GivenBase == [given |-> TRUE, value |-> 100000]
GivenFilename == [given |-> TRUE, value |-> PathA]
\* none given, each one given alone, all given
CtorArgs ==
    { <<NotGivenStr, NotGivenInt, NotGivenStr>>,
      <<GivenWorkflow, NotGivenInt, NotGivenStr>>,
      <<NotGivenStr, GivenBase, NotGivenStr>>,
      <<NotGivenStr, NotGivenInt, GivenFilename>>,
      <<GivenWorkflow, GivenBase, GivenFilename>> }

\* what time.monotonic() can read next: the clock does not go back
Readings == {r \in now..(now + 1) : r <= start_time + MaxElapsed}

\* what an open() for writing can meet
IoOutcomes == IF disk = "faulty" THEN {"ok", "open_fails", "write_fails"} ELSE {"ok"}

(***************************************************************************)
(* PgeLogger.__init__(workflow, error_code_base, log_filename).  None, ""  *)
(* and 0 are all false in the constructor's tests; an argument that was    *)
(* not given is None.                                                      *)
(***************************************************************************)
NoCall == [op |-> "init", severity |-> <<>>, module |-> <<>>, offset |-> 0,
           description |-> <<>>, path |-> <<>>, was_closed |-> FALSE,
           exc |-> NoExc, ret |-> -1, ev |-> <<>>]

InitWith(w, b, f) ==
    /\ start_time = now
    /\ log_count_by_severity = make_blank_log_count_by_severity_dict
    /\ log_filename = (IF f.value # <<>> THEN f.value ELSE default_log_file_name)
    /\ log_stream = <<>>
    /\ pos = 0
    /\ closed = FALSE
    /\ workflow = (IF w.value # <<>> THEN w.value ELSE DefaultWorkflow)
    /\ error_code_base = (IF b.value # 0 THEN b.value ELSE LOGGER_CODE_BASE)
    /\ ctor = [workflow |-> w, error_code_base |-> b, log_filename |-> f]

InitEnv ==
    /\ now \in FirstReadings
    /\ phase = "running"
    /\ files = [p \in Paths |->
                  IF p = ExtPath THEN [exists |-> TRUE, data |-> ExtText]
                  ELSE [exists |-> FALSE, data |-> <<>>]]
    /\ last = NoCall
    /\ hist = [finalize |-> 0, closing |-> 0, summary |-> 0, metrics |-> 0,
               close_persist |-> 0, io_failed |-> FALSE, close_called |-> FALSE,
               critical_called |-> FALSE, only_writes |-> TRUE,
               no_comma |-> TRUE, lowered |-> FALSE,
               prev_save |-> <<>>, moved_from |-> <<>>, ext |-> 0,
               own_text |-> <<>>, assigned_base |-> NotGivenInt]
    /\ nOps = 0

Init ==
    /\ disk = "reliable"
    /\ budget = MaxOps
    /\ InitEnv
    /\ \E args \in CtorArgs : InitWith(args[1], args[2], args[3])

InitIO ==
    /\ disk \in {"reliable", "faulty"}
    /\ budget = MaxOps
    /\ InitEnv
    /\ \E args \in CtorArgs : InitWith(args[1], args[2], args[3])

(***************************************************************************)
(* A call: the record the method starts from, and the state it leaves      *)
(***************************************************************************)
Cur(io, reading) ==
    [log_stream |-> log_stream, pos |-> pos, closed |-> closed,
     log_count_by_severity |-> log_count_by_severity,
     log_filename |-> log_filename, workflow |-> workflow,
     error_code_base |-> error_code_base, start_time |-> start_time,
     files |-> files, now |-> reading, io |-> io,
     exc |-> NoExc, ret |-> -1, ev |-> <<>>]

\* the write operations that do not finalize
OwnWriteOps == {"write", "debug", "info", "warning", "log"}
HasNoComma(str) == \A i \in DOMAIN str : str[i] # ","
Count(ev, e) == Cardinality({i \in DOMAIN ev : ev[i] = e})
\* for each line of a text its second comma-separated field, stripped and
\* title-cased; nothing for a line with fewer than two fields
SeverityFieldsOf(text) ==
    LET lines == StrSplit(text, "\n")
    IN  [i \in DOMAIN lines |->
            LET row == StrSplit(lines[i], ",")
            IN  IF Len(row) >= 2 THEN StrTitle(StrStrip(row[2])) ELSE <<>>]
\* how many of these fields are k
FieldsEqual(fields, k) == Cardinality({i \in DOMAIN fields : fields[i] = k})
\* the lines of a text with at least two comma-separated fields whose second
\* field, stripped and title-cased, is k
RecordsOfSeverity(text, k) == FieldsEqual(SeverityFieldsOf(text), k)

Commit(s, call) ==
    /\ log_stream' = s.log_stream
    /\ pos' = s.pos
    /\ closed' = s.closed
    /\ log_count_by_severity' = s.log_count_by_severity
    /\ log_filename' = s.log_filename
    /\ workflow' = s.workflow
    /\ error_code_base' = s.error_code_base
    /\ start_time' = s.start_time
    /\ files' = s.files
    /\ last' = [call EXCEPT !.was_closed = closed, !.exc = s.exc, !.ret = s.ret,
                            !.ev = s.ev]
    /\ hist' = [hist EXCEPT
                  !.finalize = @ + Count(s.ev, <<"call", <<"close_log_stream">>>>),
                  !.closing = @ + Count(s.ev, <<"done", <<"closing_record">>>>),
                  !.summary = @ + Count(s.ev, <<"done", <<"write_log_summary">>>>),
                  !.metrics = @ + Count(s.ev, <<"metrics", <<>>>>),
                  !.close_persist = @ + Count(s.ev, <<"done", <<"close_persist">>>>),
                  !.io_failed = @ \/ s.exc.type = "OSError",
                  !.close_called = @ \/ call.op = "close",
                  !.critical_called = @ \/ call.op = "critical",
                  !.only_writes = @ /\ call.op \in OwnWriteOps,
                  !.no_comma = @ /\ HasNoComma(call.description)
                                 /\ HasNoComma(call.module)
                                 /\ HasNoComma(workflow),
                  \* a call left some count lower than it found it
                  !.lowered = @ \/ \E k \in SeverityKeys :
                                     s.log_count_by_severity[k] < log_count_by_severity[k],
                  \* the path the call before this one saved the stream to
                  !.prev_save = IF last.op = "save" /\ last.exc.type = "none"
                                THEN last.path ELSE <<>>,
                  \* the path the last move() left behind
                  !.moved_from = IF call.op = "move" /\ s.exc.type = "none"
                                 THEN log_filename ELSE @,
                  \* how often the text of an external file went into the stream
                  !.ext = @ + (IF call.op = "append" /\ s.exc.type = "none"
                               THEN 1 ELSE 0),
                  \* the text the logger's own calls put into the stream
                  !.own_text = IF call.op = "append" THEN @
                               ELSE @ \o SubSeq(s.log_stream, Len(log_stream) + 1,
                                                Len(s.log_stream)),
                  \* the base last assigned through the error_code_base setter
                  !.assigned_base = IF call.op = "set_error_code_base"
                                    THEN [given |-> TRUE, value |-> call.offset]
                                    ELSE @]
    /\ now' = (IF Count(s.ev, <<"clock", <<>>>>) > 0 THEN s.now ELSE now)
    /\ nOps' = nOps + 1
    /\ UNCHANGED <<disk, ctor, budget>>

CanCall == phase = "running" /\ nOps < budget
Call(op) == [NoCall EXCEPT !.op = op]

DoCall(s, call) == Commit(s, call) /\ phase' = phase

(***************************************************************************)
(* Actions: one per public method, called by the owning workflow           *)
(***************************************************************************)
Write ==
    /\ CanCall
    /\ \E severity \in WriteSeverityArgs, o \in NamedOffsets :
         DoCall(PgeLogger_write(Cur("ok", now), severity, ModuleArg, o, DescOk),
                [Call("write") EXCEPT !.severity = severity, !.module = ModuleArg,
                                      !.offset = o, !.description = DescOk])

LogInfo ==
    /\ CanCall
    /\ \E o \in NamedOffsets, d \in InfoDescriptions :
         DoCall(info(Cur("ok", now), ModuleArg, o, d),
                [Call("info") EXCEPT !.module = ModuleArg, !.offset = o,
                                     !.description = d])

LogDebug ==
    /\ CanCall
    /\ \E o \in NamedOffsets :
         DoCall(debug(Cur("ok", now), ModuleArg, o, DescOk),
                [Call("debug") EXCEPT !.module = ModuleArg, !.offset = o,
                                      !.description = DescOk])

LogWarning ==
    /\ CanCall
    /\ \E o \in NamedOffsets :
         DoCall(warning(Cur("ok", now), ModuleArg, o, DescOk),
                [Call("warning") EXCEPT !.module = ModuleArg, !.offset = o,
                                        !.description = DescOk])

LogCritical ==
    /\ CanCall
    /\ \E o \in NamedOffsets, io \in IoOutcomes, reading \in Readings :
         DoCall(critical(Cur(io, reading), ModuleArg, o, DescOk),
                [Call("critical") EXCEPT !.module = ModuleArg, !.offset = o,
                                         !.description = DescOk])

Log ==
    /\ CanCall
    /\ \E o \in LogOffsets :
         DoCall(log(Cur("ok", now), ModuleArg, o, DescOk),
                [Call("log") EXCEPT !.module = ModuleArg, !.offset = o,
                                    !.description = DescOk])

Increment ==
    /\ CanCall
    /\ \E severity \in IncrementSeverityArgs :
         DoCall(increment_log_count_by_severity(Cur("ok", now), severity),
                [Call("increment") EXCEPT !.severity = severity])

GetCount ==
    /\ CanCall
    /\ \E severity \in GetCountSeverityArgs :
         DoCall(get_log_count_by_severity(Cur("ok", now), severity),
                [Call("get_count") EXCEPT !.severity = severity])

Resync ==
    /\ CanCall
    /\ DoCall(resync_log_count_by_severity(Cur("ok", now)), Call("resync"))

Save ==
    /\ CanCall
    /\ \E filename \in SavePaths, io \in IoOutcomes :
         DoCall(save_stream_to_file(Cur(io, now), filename),
                [Call("save") EXCEPT !.path = filename])

LogSaveAndClose ==
    /\ CanCall
    /\ \E io \in IoOutcomes :
         DoCall(log_save_and_close(Cur(io, now)), Call("log_save_and_close"))

Move ==
    /\ CanCall
    /\ \E new_filename \in MovePaths, io \in IoOutcomes :
         DoCall(move(Cur(io, now), new_filename),
                [Call("move") EXCEPT !.path = new_filename])

AppendText ==
    /\ CanCall
    /\ \E source_filename \in AppendPaths :
         DoCall(append_text_from_another_file(Cur("ok", now), source_filename),
                [Call("append") EXCEPT !.path = source_filename])

Close ==
    /\ CanCall
    /\ \E io \in IoOutcomes, reading \in Readings :
         DoCall(close_log_stream(Cur(io, reading)), Call("close"))

\* the process exits and no hook was registered
ExitWithoutHook ==
    /\ phase = "running"
    /\ phase' = "exited"
    /\ last' = Call("exit_hook")
    /\ UNCHANGED <<log_stream, pos, closed, log_count_by_severity, log_filename,
                   workflow, error_code_base, start_time, files, now, disk, ctor,
                   hist, nOps, budget>>

\* The process exits: atexit runs the close_log_stream registered by
\* __init__ (line 193), once; an exception it raises is reported and dropped.
\* The clock reads at exit what it read last (Close and LogCritical range
\* over the later readings).
ExitHook ==
    /\ phase = "running"
    /\ \E io \in IoOutcomes :
         Commit(close_log_stream(Cur(io, now)), Call("exit_hook"))
    /\ phase' = "exited"

Next ==
    \/ Write
    \/ LogInfo
    \/ LogDebug
    \/ LogWarning
    \/ LogCritical
    \/ Log
    \/ Increment
    \/ GetCount
    \/ Resync
    \/ Save
    \/ LogSaveAndClose
    \/ Move
    \/ AppendText
    \/ Close
    \/ ExitHook

Spec == Init /\ [][Next]_vars
SpecIO == InitIO /\ [][Next]_vars

(***************************************************************************)
(* A longer run of a workflow that logs, appends the log of an external    *)
(* process, resyncs, saves, moves and closes                               *)
(***************************************************************************)
InitLong ==
    /\ disk = "reliable"
    /\ budget = MaxOpsLong
    /\ InitEnv
    /\ \E args \in CtorArgs : InitWith(args[1], args[2], args[3])

NextLong ==
    \/ Write
    \/ LogInfo
    \/ Log
    \/ AppendText
    \/ Resync
    \/ Save
    \/ Move
    \/ Close

SpecLong == InitLong /\ [][NextLong]_vars

(***************************************************************************)
(* log() called with offsets on both sides of every range threshold, below *)
(* zero and above the modulus                                              *)
(***************************************************************************)
ClassifyOffsets ==
    {-9000, -1, 0, 999, 1000, 1999, 2000, 2999, 3000, 9999, 10000, 10001,
     10999, 11000, 12999, 13000, 20999}

LogAnyOffset ==
    /\ CanCall
    /\ \E o \in ClassifyOffsets :
         DoCall(log(Cur("ok", now), ModuleArg, o, DescOk),
                [Call("log") EXCEPT !.module = ModuleArg, !.offset = o,
                                    !.description = DescOk])

NextClassify == LogAnyOffset

SpecClassify == Init /\ [][NextClassify]_vars

(***************************************************************************)
(* A workflow that writes, counts by hand, and asks for the summary itself *)
(* before it closes                                                        *)
(***************************************************************************)
WriteSummary ==
    /\ CanCall
    /\ \E reading \in Readings :
         DoCall(write_log_summary(Cur("ok", reading)), Call("write_summary"))

NextSummary ==
    \/ Write
    \/ LogInfo
    \/ Log
    \/ Increment
    \/ WriteSummary
    \/ Close

SpecSummary == InitLong /\ [][NextSummary]_vars

(***************************************************************************)
(* A workflow that only writes, reads counts, saves and moves: no text of  *)
(* another file, no resync, no count raised by hand, no close              *)
(***************************************************************************)
NextOwn ==
    \/ Write
    \/ LogInfo
    \/ LogDebug
    \/ LogWarning
    \/ Log
    \/ GetCount
    \/ Save
    \/ LogSaveAndClose
    \/ Move

SpecOwn == Init /\ [][NextOwn]_vars

(***************************************************************************)
(* Loggers constructed with every kind of argument, a base of 0 and empty  *)
(* strings included, whose workflow writes and assigns the base            *)
(***************************************************************************)
GivenBaseZero == [given |-> TRUE, value |-> 0]
GivenEmpty == [given |-> TRUE, value |-> <<>>]
CtorArgsAny ==
    CtorArgs \cup { <<NotGivenStr, GivenBaseZero, NotGivenStr>>,
                    <<GivenWorkflow, GivenBaseZero, GivenFilename>>,
                    <<GivenEmpty, GivenBase, GivenEmpty>> }
SetterBases == {0, 70000}

InitCodes ==
    /\ disk = "reliable"
    /\ budget = MaxOps
    /\ InitEnv
    /\ \E args \in CtorArgsAny : InitWith(args[1], args[2], args[3])

\* logger.error_code_base = b
SetErrorCodeBase ==
    /\ CanCall
    /\ \E b \in SetterBases :
         DoCall([Cur("ok", now) EXCEPT !.error_code_base = b],
                [Call("set_error_code_base") EXCEPT !.offset = b])

NextCodes ==
    \/ Write
    \/ LogInfo
    \/ LogDebug
    \/ LogWarning
    \/ Log
    \/ SetErrorCodeBase

SpecCodes == InitCodes /\ [][NextCodes]_vars

(***************************************************************************)
(* Reading the stream back, for the properties below                       *)
(***************************************************************************)
\* the lines of a text that ends with a newline
Records(text) ==
    LET parts == StrSplit(text, "\n") IN SubSeq(parts, 1, Len(parts) - 1)
\* a line's severity field
SeverityField(line) ==
    LET row == StrSplit(line, ",") IN IF Len(row) >= 2 THEN StrStrip(row[2]) ELSE <<>>
\* what a step appended to the stream
StreamGrew ==
    /\ Len(log_stream') >= Len(log_stream)
    /\ SubSeq(log_stream', 1, Len(log_stream)) = log_stream
AppendedText == SubSeq(log_stream', Len(log_stream) + 1, Len(log_stream'))
\* the step appended exactly one record, of the given severity
AppendedOneRecord(severity) ==
    /\ StreamGrew
    /\ \A text \in {AppendedText} :
          /\ text # <<>>
          /\ text[Len(text)] = "\n"
          /\ \A records \in {Records(text)} :
                /\ Len(records) = 1
                /\ \A record \in {records[1]} : SeverityField(record) = severity
\* the logger as a step leaves it
After ==
    [Cur("ok", now) EXCEPT !.log_stream = log_stream', !.pos = pos',
                           !.closed = closed',
                           !.log_count_by_severity = log_count_by_severity',
                           !.log_filename = log_filename', !.files = files']
IsCanonical(severity) == standardize_severity_string(severity) \in SeverityKeys
Raised(type) == last.exc.type = type
Happened(e) == Count(last.ev, e) > 0

(***************************************************************************)
(* C1                                                                      *)
(***************************************************************************)
\* C1: while every file write succeeds, however often close(), critical() and
\* the exit hook are invoked, the closing record and the summary block are
\* appended once, the OS metrics are collected once and the file is persisted
\* at close once; and a close_log_stream invocation after the first changes
\* neither the stream, nor the tally, nor any file.
C1_FinalizedOnce ==
    /\ [](hist.finalize >= 1 /\ ~hist.io_failed =>
            /\ hist.closing = 1
            /\ hist.summary = 1
            /\ hist.metrics = 1
            /\ hist.close_persist = 1
            /\ closed)
    /\ [][hist.finalize >= 1 /\ hist'.finalize > hist.finalize /\ ~hist'.io_failed =>
            /\ log_stream' = log_stream
            /\ log_count_by_severity' = log_count_by_severity
            /\ files' = files]_vars

\* close() after a critical(), then the exit hook: three invocations
C1_Witness ==
    /\ hist.finalize = 3
    /\ hist.critical_called
    /\ hist.close_called
    /\ phase = "exited"
    /\ ~hist.io_failed
    /\ disk = "faulty"

(***************************************************************************)
(* C2                                                                      *)
(***************************************************************************)
FirstIndex(ev, e) == CHOOSE i \in DOMAIN ev : ev[i] = e /\ \A j \in DOMAIN ev : ev[j] = e => i <= j
EvCriticalCounted == <<"count", Critical>>
EvStreamWrite == <<"write", <<>>>>
EvSummaryDone == <<"done", <<"write_log_summary">>>>
EvStreamClosed == <<"close", <<>>>>
EvRuntimeError == <<"raise", <<"RuntimeError">>>>
EvSaved(path) == <<"save", path>>
\* the summary block of a tally, as the last lines of a text: one
\* overall.log_messages line per severity, one line per OS metric, the
\* elapsed time
SummaryLineCount == Len(SeverityOrder) + Len(get_os_metrics) + 1
IsSummaryLine(line, name) ==
    LET quoted == StrSplit(line, "\"")
    IN  /\ Len(quoted) = 3
        /\ Len(quoted[2]) > Len(name)
        /\ SubSeq(quoted[2], 1, Len(name)) = name
EndsWithSummary(text) ==
    LET lines == Records(text)
        n == Len(lines)
        k == SummaryLineCount
    IN  /\ n >= k
        /\ \A i \in 1..Len(SeverityOrder) :
              IsSummaryLine(lines[n - k + i],
                            TxtOverallLogMessages \o StrLower(SeverityOrder[i]) \o <<":">>)
        /\ \A i \in 1..Len(get_os_metrics) :
              IsSummaryLine(lines[n - k + Len(SeverityOrder) + i],
                            TxtOverall \o get_os_metrics[i].name \o <<":">>)
        /\ IsSummaryLine(lines[n], TxtOverallElapsed \o <<":">>)

\* C2: a critical() call on a logger that is not closed counts and appends the
\* Critical record, then appends the whole summary block, then persists the
\* stream to the stored file, then closes the stream, and only then raises
\* RuntimeError(description): the raise is the last thing that happens.
C2_CriticalOrder ==
    last.op = "critical" /\ ~last.was_closed =>
        LET ev == last.ev
        IN  /\ Len(ev) >= 2
            /\ ev[1] = EvCriticalCounted
            /\ ev[2] = EvStreamWrite
            /\ Happened(EvSummaryDone) /\ Count(ev, EvSummaryDone) = 1
            /\ Happened(EvSaved(log_filename)) /\ Count(ev, EvSaved(log_filename)) = 1
            /\ Happened(EvStreamClosed)
            /\ 2 < FirstIndex(ev, EvSummaryDone)
            /\ FirstIndex(ev, EvSummaryDone) < FirstIndex(ev, EvSaved(log_filename))
            /\ FirstIndex(ev, EvSaved(log_filename)) < FirstIndex(ev, EvStreamClosed)
            /\ FirstIndex(ev, EvStreamClosed) = Len(ev) - 1
            /\ ev[Len(ev)] = EvRuntimeError
            /\ Count(ev, EvRuntimeError) = 1
            /\ last.exc = [type |-> "RuntimeError", arg |-> last.description]
            /\ closed
            /\ log_count_by_severity[Critical] >= 1
            /\ EndsWithSummary(log_stream)
            /\ files[log_filename] = [exists |-> TRUE, data |-> log_stream]

\* a critical() call on an open logger that already holds a record
C2_Witness ==
    /\ last.op = "critical"
    /\ ~last.was_closed
    /\ nOps = 2
    /\ Raised("RuntimeError")
    /\ closed

(***************************************************************************)
(* C3                                                                      *)
(***************************************************************************)
WriteOps == {"write", "debug", "info", "warning", "critical", "log"}
PersistOps == {"save", "log_save_and_close", "move"}

\* C3: on a closed logger every write operation and every persistence
\* operation fails with an exception and changes neither the tally, nor the
\* stored path, nor the content of the persisted log file.
C3_ClosedRejectsCleanly ==
    [][closed /\ last'.op \in WriteOps \cup PersistOps =>
          /\ last'.exc.type # "none"
          /\ log_count_by_severity' = log_count_by_severity
          /\ log_filename' = log_filename
          /\ files'[log_filename] = files[log_filename]]_vars

(***************************************************************************)
(* C4                                                                      *)
(***************************************************************************)
\* C4: when the process exits and neither close() nor critical() was called,
\* the exit hook has appended the closing record and the summary block and
\* persisted the stream to the stored path: the logger is closed and its file
\* holds the whole stream.
C4_FinalizedAtExit ==
    phase = "exited" /\ ~hist.close_called /\ ~hist.critical_called =>
        /\ closed
        /\ hist.closing = 1
        /\ hist.summary = 1
        /\ EndsWithSummary(log_stream)
        /\ files[log_filename] = [exists |-> TRUE, data |-> log_stream]

\* the process exited after a move, with no close() and no critical()
C4_Witness ==
    /\ phase = "exited"
    /\ ~hist.close_called
    /\ ~hist.critical_called
    /\ last.op = "exit_hook"
    /\ log_filename = PathB
    /\ closed
    /\ nOps >= 2

(***************************************************************************)
(* C5                                                                      *)
(***************************************************************************)
\* C5 as stated: increment with a string that is no canonical severity, on an
\* open logger, leaves all four counts as they were, appends one Warning
\* record and does not raise.
C5_AllCountsUnchanged ==
    [][last'.op = "increment" /\ ~closed /\ ~IsCanonical(last'.severity) =>
          /\ log_count_by_severity' = log_count_by_severity
          /\ AppendedOneRecord(Warning)
          /\ last'.exc.type = "none"]_vars

\* C5 amended: increment with a string that is no canonical severity, on an
\* open logger, leaves the Debug, Info and Critical counts as they were,
\* raises the Warning count by one (the warning record it writes is counted),
\* appends exactly one Warning record and does not raise.
C5_WarningCounted ==
    [][last'.op = "increment" /\ ~closed /\ ~IsCanonical(last'.severity) =>
          /\ log_count_by_severity' =
                [log_count_by_severity EXCEPT ![Warning] = @ + 1]
          /\ AppendedOneRecord(Warning)
          /\ Count(last'.ev, EvStreamWrite) = 1
          /\ last'.exc.type = "none"]_vars

\* an increment of "fatal" on an open logger has returned
C5_Witness ==
    /\ last.op = "increment"
    /\ last.severity = SevFatal
    /\ ~last.was_closed
    /\ Raised("none")

(***************************************************************************)
(* C6                                                                      *)
(***************************************************************************)
\* a string that spells a canonical severity in some letter case
SpellsSeverity(str) == \E k \in SeverityKeys : StrLower(k) = StrLower(str)
SeveritySpelled(str) == CHOOSE k \in SeverityKeys : StrLower(k) = StrLower(str)

\* C6: increment of a canonical severity, in any letter case, raises the count
\* of that severity by one, so that get_count of it returns one more than
\* before, and leaves the other three counts and the stream as they were.
C6_IncrementCanonical ==
    [][last'.op = "increment" /\ SpellsSeverity(last'.severity) =>
          LET severity == SeveritySpelled(last'.severity)
          IN  /\ log_count_by_severity' =
                    [log_count_by_severity EXCEPT ![severity] = @ + 1]
              /\ get_log_count_by_severity(After, last'.severity).ret =
                    get_log_count_by_severity(Cur("ok", now), last'.severity).ret + 1
              /\ log_stream' = log_stream
              /\ last'.exc.type = "none"]_vars

\* an increment of "wArNiNg" has returned
C6_Witness ==
    /\ last.op = "increment"
    /\ last.severity = SevWarningMixed
    /\ log_count_by_severity[Warning] = 1
    /\ Raised("none")

(***************************************************************************)
(* C7                                                                      *)
(***************************************************************************)
\* C7: on an open logger whose stream was filled by write, debug, info,
\* warning and log calls alone, with no comma in a description, a module or
\* the workflow name, resync() right after the last write leaves the tally as
\* the incremental counting left it.
C7_ResyncRoundTrip ==
    [][/\ last'.op = "resync"
       /\ ~closed
       /\ nOps >= 1
       /\ hist.only_writes
       /\ hist.no_comma
       => log_count_by_severity' = log_count_by_severity]_vars

(***************************************************************************)
(* C8                                                                      *)
(***************************************************************************)
\* the last call wrote a Critical record on an open logger
WroteCriticalRecord ==
    /\ ~last.was_closed
    /\ \/ last.op = "critical"
       \/ last.op = "log" /\ get_severity_from_error_code(last.offset) = Critical
       \/ last.op = "write" /\ standardize_severity_string(last.severity) = Critical
Finalized ==
    /\ closed
    /\ Happened(EvSummaryDone)
    /\ files[log_filename] = [exists |-> TRUE, data |-> log_stream]

\* C8 as stated: a call that writes a Critical record, be it critical(), log()
\* with a Critical-range offset or write() with the severity Critical,
\* finalizes and persists the log and then raises.
C8_AnyCriticalFinalizes ==
    WroteCriticalRecord => Finalized /\ Raised("RuntimeError")

\* C8 amended: a Critical record written by critical() finalizes and persists
\* the log and then raises RuntimeError; a Critical record written by log() or
\* write() is counted and appended and nothing more: the logger stays open,
\* no summary is written, no file is opened and nothing is raised.
C8_OnlyCriticalFinalizes ==
    WroteCriticalRecord =>
        /\ Happened(EvCriticalCounted)
        /\ IF last.op = "critical"
           THEN /\ Finalized
                /\ Raised("RuntimeError")
                /\ last.ev[Len(last.ev)] = EvRuntimeError
           ELSE /\ ~closed
                /\ Raised("none")
                /\ last.ev = <<EvCriticalCounted, EvStreamWrite>>

\* log() with the offset 13000, of the Critical range, has returned
C8_Witness ==
    /\ last.op = "log"
    /\ last.offset = 13000
    /\ ~last.was_closed
    /\ log_count_by_severity[Critical] = 1

(***************************************************************************)
(* C9                                                                      *)
(***************************************************************************)
\* C9: debug, info, warning, log and write never change the closed flag,
\* never append a summary block and never write a file, whatever their
\* arguments; of the write operations only critical() finalizes.
C9_WritesDoNotFinalize ==
    [][last'.op \in OwnWriteOps =>
          /\ closed' = closed
          /\ files' = files
          /\ hist'.summary = hist.summary
          /\ hist'.finalize = hist.finalize
          /\ \A i \in DOMAIN last'.ev :
                last'.ev[i][1] \in {"count", "write", "raise"}]_vars

\* write() with the severity "critical" has returned on an open logger
C9_Witness ==
    /\ last.op = "write"
    /\ last.severity = SevCriticalLower
    /\ ~last.was_closed
    /\ ~closed
    /\ log_count_by_severity[Critical] = 1

(***************************************************************************)
(* C10                                                                     *)
(***************************************************************************)
\* C10: append_text_from_another_file on an open logger, with a path that
\* does not exist, appends one Warning record to the stream, raises the
\* Warning count by one, does not raise and leaves the logger open.
C10_MissingFileWarns ==
    [][last'.op = "append" /\ ~closed /\ ~files[last'.path].exists =>
          /\ AppendedOneRecord(Warning)
          /\ log_count_by_severity' =
                [log_count_by_severity EXCEPT ![Warning] = @ + 1]
          /\ last'.exc.type = "none"
          /\ ~closed']_vars

(***************************************************************************)
(* C11                                                                     *)
(***************************************************************************)
\* C11: in every state the keys of the tally are exactly Debug, Info, Warning
\* and Critical and every count is a natural number; and no call other than
\* resync() leaves a count lower than it found it.
C11_TallyShape ==
    /\ [](/\ DOMAIN log_count_by_severity = SeverityKeys
          /\ \A k \in SeverityKeys : log_count_by_severity[k] \in Nat)
    /\ [][last'.op # "resync" =>
            \A k \in SeverityKeys :
               log_count_by_severity'[k] >= log_count_by_severity[k]]_vars

\* a resync() has lowered a count that an increment had raised with no record
\* behind it
C11_Witness ==
    /\ last.op = "resync"
    /\ hist.lowered
    /\ log_stream = <<>>
    /\ \A k \in SeverityKeys : log_count_by_severity[k] = 0

(***************************************************************************)
(* C12                                                                     *)
(***************************************************************************)
\* the severity of an offset by its remainder r modulo 10000
ClaimedSeverity(o) ==
    LET r == o % 10000
    IN  CASE r < DEBUG_RANGE_START -> Info
          [] DEBUG_RANGE_START <= r /\ r < WARNING_RANGE_START -> Debug
          [] WARNING_RANGE_START <= r /\ r < CRITICAL_RANGE_START -> Warning
          [] OTHER -> Critical
\* the text between the quotes of a record: its description
Description(line) ==
    LET quoted == StrSplit(line, "\"") IN IF Len(quoted) >= 2 THEN quoted[2] ELSE <<>>
\* the last record of the stream
LastRecord == Records(log_stream)[Len(Records(log_stream))]

\* C12: the severity log() derives from an offset o is decided by o mod 10000
\* alone: Info below the Debug threshold, Debug from there to the Warning
\* threshold, Warning from there to the Critical threshold, Critical above;
\* the classifier gives o, o mod 10000 and o + 10000 the same severity.
C12_ClassifyByRemainder ==
    last.op = "log" /\ ~last.was_closed =>
        LET o == last.offset
        IN  /\ last.ev[1] = <<"count", ClaimedSeverity(o)>>
            /\ SeverityField(LastRecord) = ClaimedSeverity(o)
            /\ get_severity_from_error_code(o) = ClaimedSeverity(o)
            /\ get_severity_from_error_code(o) = get_severity_from_error_code(o % 10000)
            /\ get_severity_from_error_code(o + 10000) = get_severity_from_error_code(o)

\* log() was called with 11000, above the modulus, and with -1, below zero:
\* one Debug record and one Critical record
C12_Witness ==
    /\ last.op = "log"
    /\ last.offset = -1
    /\ log_count_by_severity[Debug] = 1
    /\ log_count_by_severity[Critical] = 1
    /\ SeverityField(Records(log_stream)[1]) = Debug

(***************************************************************************)
(* C13                                                                     *)
(***************************************************************************)
\* C13: save_stream_to_file(path) on an open logger leaves in the file at path
\* the whole stream and nothing else, and changes neither the stream, nor the
\* tally, nor the stored path, nor the open flag; a second save to the same
\* path right after the first leaves the file as the first left it.
C13_PersistOverwrites ==
    [][last'.op = "save" /\ ~closed =>
          /\ files'[last'.path] = [exists |-> TRUE, data |-> log_stream]
          /\ log_stream' = log_stream
          /\ log_count_by_severity' = log_count_by_severity
          /\ log_filename' = log_filename
          /\ ~closed'
          /\ last'.exc.type = "none"
          /\ (last.op = "save" /\ last.path = last'.path =>
                 files'[last'.path] = files[last'.path])]_vars

\* a record was logged and the stream saved twice to the same path
C13_Witness ==
    /\ last.op = "save"
    /\ hist.prev_save = last.path
    /\ ~closed
    /\ log_stream # <<>>
    /\ files[last.path].data = log_stream

(***************************************************************************)
(* C14                                                                     *)
(***************************************************************************)
IsPrefix(a, b) == Len(a) <= Len(b) /\ SubSeq(b, 1, Len(a)) = a

\* C14: move(new_path) on an open logger, to another path than the stored
\* one, saves the stream to the path stored before the call, then stores
\* new_path, writes no file at new_path and leaves the logger open; a later
\* close() saves the whole stream to new_path and does not write the old file,
\* which holds a shorter prefix of the final log.
C14_MoveThenClose ==
    [][/\ (last'.op = "move" /\ ~closed /\ last'.path # log_filename =>
              /\ last'.exc.type = "none"
              /\ Count(last'.ev, EvSaved(log_filename)) = 1
              /\ Count(last'.ev, EvSaved(last'.path)) = 0
              /\ files'[log_filename] = [exists |-> TRUE, data |-> log_stream']
              /\ IsPrefix(log_stream, log_stream')
              /\ log_filename' = last'.path
              /\ files'[last'.path] = files[last'.path]
              /\ ~closed')
       /\ (/\ last'.op = "close" /\ ~closed
           /\ hist.moved_from # <<>> /\ hist.moved_from # log_filename
           => /\ last'.exc.type = "none"
              /\ closed'
              /\ log_filename' = log_filename
              /\ files'[log_filename] = [exists |-> TRUE, data |-> log_stream']
              /\ files'[hist.moved_from] = files[hist.moved_from]
              /\ IsPrefix(files'[hist.moved_from].data, log_stream')
              /\ Len(files'[hist.moved_from].data) < Len(log_stream')
              /\ Len(files'[hist.moved_from].data) > 0)]_vars

\* a record was logged, the log moved from a to b, and the logger closed
C14_Witness ==
    /\ last.op = "close"
    /\ closed
    /\ nOps = 3
    \* the records before the closing record are the two move() wrote
    /\ Len(Records(log_stream)) >= SummaryLineCount + 3
    /\ IsPrefix(TxtMovingTo,
                Description(Records(log_stream)[Len(Records(log_stream))
                                                 - SummaryLineCount - 2]))
    /\ hist.moved_from = PathA
    /\ log_filename = PathB
    /\ files[PathB].data = log_stream
    /\ files[PathA].exists

(***************************************************************************)
(* C15                                                                     *)
(***************************************************************************)
EvClosingRecordDone == <<"done", <<"closing_record">>>>

\* C15: close() on an open logger appends the closing Info record, then the
\* summary block, then saves the whole stream to the stored path, then marks
\* the stream closed: the file holds every record written before, then the
\* closing record, then the summary block, and nothing after it.
C15_CloseOrder ==
    [][last'.op = "close" /\ ~closed =>
          \A ev \in {last'.ev}, before \in {Records(log_stream)},
             after \in {Records(log_stream')} :
              /\ last'.exc.type = "none"
              /\ Count(ev, EvClosingRecordDone) = 1
              /\ Count(ev, EvSummaryDone) = 1
              /\ Count(ev, EvSaved(log_filename)) = 1
              /\ Count(ev, EvStreamClosed) = 1
              /\ FirstIndex(ev, EvClosingRecordDone) < FirstIndex(ev, EvSummaryDone)
              /\ FirstIndex(ev, EvSummaryDone) < FirstIndex(ev, EvSaved(log_filename))
              /\ FirstIndex(ev, EvSaved(log_filename)) < FirstIndex(ev, EvStreamClosed)
              /\ FirstIndex(ev, EvStreamClosed) = Len(ev)
              /\ StreamGrew
              /\ Len(after) = Len(before) + 1 + SummaryLineCount
              /\ SubSeq(after, 1, Len(before)) = before
              /\ \A record \in {after[Len(before) + 1]} :
                    /\ SeverityField(record) = Info
                    /\ Description(record) = TxtClosing \o log_filename
              /\ EndsWithSummary(log_stream')
              /\ log_stream'[Len(log_stream')] = "\n"
              /\ files'[log_filename] = [exists |-> TRUE, data |-> log_stream']
              /\ closed']_vars

\* close() on an open logger that held one record
C15_Witness ==
    /\ last.op = "close"
    /\ ~last.was_closed
    /\ SeverityField(Records(log_stream)[1]) = Info
    /\ Description(Records(log_stream)[1]) = DescOk
    /\ closed
    /\ Len(Records(log_stream)) = 2 + SummaryLineCount

(***************************************************************************)
(* C16                                                                     *)
(***************************************************************************)
\* C16: get_log_count_by_severity on an open logger, given a canonical
\* severity in any letter case, returns its count and changes nothing; given
\* any other string it returns 0, appends exactly one Warning record and does
\* not raise.
C16_GetCountSoftFailure ==
    [][last'.op = "get_count" /\ ~closed =>
          /\ last'.exc.type = "none"
          /\ IF SpellsSeverity(last'.severity)
             THEN /\ last'.ret = log_count_by_severity[SeveritySpelled(last'.severity)]
                  /\ last'.ev = <<>>
                  /\ UNCHANGED <<log_stream, pos, closed, log_count_by_severity,
                                 log_filename, files>>
             ELSE /\ last'.ret = 0
                  /\ AppendedOneRecord(Warning)
                  /\ Count(last'.ev, EvStreamWrite) = 1
                  /\ ~closed']_vars

\* get_count("fatal") answered 0 with a warning, and get_count("wArNiNg")
\* after it answered 1
C16_Witness ==
    /\ last.op = "get_count"
    /\ last.severity = SevWarningMixed
    /\ last.ret = 1
    /\ Len(Records(log_stream)) = 1
    /\ IsPrefix(TxtNoMessages, Description(LastRecord))
    /\ Raised("none")

(***************************************************************************)
(* C17                                                                     *)
(***************************************************************************)
\* C17: once one invocation of close_log_stream has begun its sequence of
\* closing record, summary and save, no later invocation (close(), critical()
\* or the exit hook) appends a second closing record or a second summary
\* block, also when the save of the first invocation failed with an I/O
\* error.
C17_OneCloseSequence ==
    /\ hist.closing <= 1
    /\ hist.summary <= 1

(***************************************************************************)
(* C18                                                                     *)
(***************************************************************************)
\* the lines of a text with at least two comma-separated fields whose second
\* field, stripped and title-cased, is no canonical severity
UnrecognizedLines(text) ==
    LET lines == StrSplit(text, "\n")
    IN  Cardinality({i \in DOMAIN lines :
            LET row == StrSplit(lines[i], ",")
            IN  Len(row) >= 2 /\ StrTitle(StrStrip(row[2])) \notin SeverityKeys})

\* C18: resync() on an open logger sets the count of each canonical severity
\* to the number of lines of the stream, as it was when resync began, with at
\* least two fields whose second field, stripped and title-cased, is that
\* severity; for each line whose second field is no canonical severity it
\* appends one Warning record, and these records are not in the new tally.
C18_ResyncCounts ==
    [][last'.op = "resync" /\ ~closed =>
          LET before == Records(log_stream)
              after == Records(log_stream')
              unknown == UnrecognizedLines(log_stream)
          IN  /\ last'.exc.type = "none"
              /\ \A k \in SeverityKeys :
                    log_count_by_severity'[k] = RecordsOfSeverity(log_stream, k)
              /\ StreamGrew
              /\ Len(after) = Len(before) + unknown
              /\ Count(last'.ev, EvStreamWrite) = unknown
              /\ \A i \in (Len(before) + 1)..Len(after) :
                    /\ SeverityField(after[i]) = Warning
                    /\ Description(after[i]) = TxtResyncFailed
              /\ RecordsOfSeverity(log_stream', Warning) =
                    log_count_by_severity'[Warning] + unknown]_vars

\* resync() after write("fatal", ...): the stream holds the warning of the
\* failed increment, the Fatal record and the warning of the resync, and the
\* tally one Warning
C18_Witness ==
    /\ last.op = "resync"
    /\ Raised("none")
    /\ Len(Records(log_stream)) = 3
    /\ SeverityField(Records(log_stream)[2]) = StrTitle(SevFatal)
    /\ UnrecognizedLines(log_stream) = 1
    /\ log_count_by_severity[Warning] = 1
    /\ RecordsOfSeverity(log_stream, Warning) = 2

CodeField(line) ==
    LET row == StrSplit(line, ",") IN IF Len(row) >= 5 THEN StrStrip(row[5]) ELSE <<>>

\* C20: log(module, o, description) on an open logger leaves the stream and
\* the tally as write(classify(o), module, o, description) would: it appends
\* exactly one record, whose severity field is classify(o) and whose code is
\* base + o, and raises the count of classify(o), and no other, by one.
C20_LogAgreesWithWrite ==
    [][last'.op = "log" /\ ~closed =>
          \A o \in {last'.offset} :
          \A severity \in {ClaimedSeverity(o)}, after \in {Records(log_stream')} :
          \A written \in {PgeLogger_write(Cur("ok", now), severity, last'.module, o,
                                          last'.description)},
             record \in {after[Len(after)]} :
              /\ last'.exc.type = "none"
              /\ log_stream' = written.log_stream
              /\ log_count_by_severity' = written.log_count_by_severity
              /\ AppendedOneRecord(severity)
              /\ CodeField(record) = IntToStr(error_code_base + o)
              /\ log_count_by_severity' =
                    [log_count_by_severity EXCEPT ![severity] = @ + 1]]_vars

\* log() with the offset 11000 on a logger constructed with the base 100000:
\* a Debug record with the code 111000
C20_Witness ==
    /\ last.op = "log"
    /\ last.offset = 11000
    /\ Raised("none")
    /\ error_code_base = GivenBase.value
    /\ SeverityField(LastRecord) = Debug
    /\ CodeField(LastRecord) = <<"1","1","1","0","0","0">>
    /\ log_count_by_severity[Debug] = 1

(***************************************************************************)
(* C21                                                                     *)
(***************************************************************************)
\* the description of a summary record: name, colon, space, value
SummaryText(name, value) == name \o TxtColonSpace \o IntToStr(value)

\* C21: write_log_summary() on an open logger, called directly or by
\* close_log_stream() after its closing record, appends exactly 4 + n + 1
\* records in this order: overall.log_messages.<severity> for Debug, Info,
\* Warning, Critical, overall.<name> for each of the n metrics of one
\* get_os_metrics() call, overall.elapsed_seconds.  Each reported count is the
\* tally as write_log_summary found it (after the closing Info record when
\* close called it); every summary record is tallied under the severity of
\* its code, and none of them shows in the reported counts.
C21_SummaryRecords ==
    [][last'.op \in {"write_summary", "close"} /\ ~closed =>
          \A lead \in {IF last'.op = "close" THEN 1 ELSE 0} :
          \A records \in {Records(AppendedText)} :
          \A started \in {[k \in SeverityKeys |->
                             log_count_by_severity[k]
                               + (IF k = Info THEN lead ELSE 0)]} :
              /\ last'.exc.type = "none"
              /\ StreamGrew
              /\ Len(records) = lead + Len(SeverityOrder) + Len(get_os_metrics) + 1
              /\ \A i \in 1..Len(SeverityOrder) :
                    Description(records[lead + i]) =
                       SummaryText(TxtOverallLogMessages \o StrLower(SeverityOrder[i]),
                                   started[SeverityOrder[i]])
              /\ \A i \in 1..Len(get_os_metrics) :
                    Description(records[lead + Len(SeverityOrder) + i]) =
                       SummaryText(TxtOverall \o get_os_metrics[i].name,
                                   get_os_metrics[i].value)
              /\ IsSummaryLine(records[Len(records)], TxtOverallElapsed \o <<":">>)
              /\ hist'.metrics = hist.metrics + 1
              /\ \A k \in SeverityKeys :
                    log_count_by_severity'[k] =
                       started[k]
                         + (IF k = get_severity_from_error_code(SUMMARY_STATS_MESSAGE)
                            THEN SummaryLineCount ELSE 0)]_vars

\* a Warning record logged, then close(): the summary reports debug 0, info 1
\* (the closing record), warning 1, critical 0, and the tally ends with the
\* seven summary records counted on top
C21_Witness ==
    /\ last.op = "close"
    /\ ~last.was_closed
    /\ Raised("none")
    /\ Len(Records(log_stream)) = 2 + SummaryLineCount
    /\ SeverityField(Records(log_stream)[1]) = Warning
    /\ Description(Records(log_stream)[3]) =
          SummaryText(TxtOverallLogMessages \o StrLower(Debug), 0)
    /\ Description(Records(log_stream)[4]) =
          SummaryText(TxtOverallLogMessages \o StrLower(Info), 1)
    /\ Description(Records(log_stream)[5]) =
          SummaryText(TxtOverallLogMessages \o StrLower(Warning), 1)
    /\ Description(Records(log_stream)[6]) =
          SummaryText(TxtOverallLogMessages \o StrLower(Critical), 0)
    /\ log_count_by_severity[Info] = 1 + SummaryLineCount
    /\ log_count_by_severity[Warning] = 1

(***************************************************************************)
(* C22                                                                     *)
(***************************************************************************)
\* the severity a record was written with: what write() put between the
\* first ", " and the next comma, letter for letter
WrittenSeverity(line) ==
    LET row == StrSplit(line, ",")
    IN  IF Len(row) >= 2 /\ Len(row[2]) >= 1 THEN Tail(row[2]) ELSE <<>>
\* the records of a text written with the severity k
RecordsWritten(text, k) ==
    LET lines == Records(text)
    IN  Cardinality({i \in DOMAIN lines : WrittenSeverity(lines[i]) = k})

\* C22: on an open logger that was only written to, asked for counts, saved
\* and moved, the count of every canonical severity is the number of records
\* in the stream that were written with that severity: a write counts and
\* appends together, the warning of a soft failure is counted as a Warning,
\* and a record written with a non-canonical severity is counted nowhere.
C22_TallyInStep ==
    /\ ~closed
    /\ \A k \in SeverityKeys :
          log_count_by_severity[k] = RecordsWritten(log_stream, k)

\* write(" info", ...) then info(...): the stream holds the Warning of the
\* soft failure, the record written as " Info" and an Info record; the tally
\* is Warning 1, Info 1
C22_Witness ==
    /\ last.op = "info"
    /\ Raised("none")
    /\ Len(Records(log_stream)) = 3
    /\ WrittenSeverity(Records(log_stream)[1]) = Warning
    /\ WrittenSeverity(Records(log_stream)[2]) = <<" ">> \o Info
    /\ WrittenSeverity(Records(log_stream)[3]) = Info
    /\ log_count_by_severity[Warning] = 1
    /\ log_count_by_severity[Info] = 1
    /\ log_count_by_severity[Debug] = 0
    /\ log_count_by_severity[Critical] = 0

(***************************************************************************)
(* C23                                                                     *)
(***************************************************************************)
\* the calls that leave the logger open
AppendOnlyOps ==
    OwnWriteOps \cup {"get_count", "increment", "resync", "save",
                      "log_save_and_close", "move", "append"}

\* C23: every write, get_log_count_by_severity, increment, resync, save, move
\* and append_text_from_another_file on an open logger leaves the stream as
\* it was with, at most, text added at its end; a call that writes a record
\* makes the stream longer and leaves the position at its end, also after a
\* save has rewound the stream to copy it.
C23_AppendOnly ==
    [][last'.op \in AppendOnlyOps /\ ~closed =>
          /\ StreamGrew
          /\ pos' = Len(log_stream')
          /\ (last'.op \in OwnWriteOps \cup {"move", "log_save_and_close"}
                => Len(log_stream') > Len(log_stream))]_vars

\* move() saved the two records it wrote, then info(): the stream is the
\* saved text with the third record after it
C23_Witness ==
    /\ last.op = "info"
    /\ Raised("none")
    /\ hist.moved_from # <<>>
    /\ Len(Records(log_stream)) = 3
    /\ files[hist.moved_from].exists
    /\ Len(Records(files[hist.moved_from].data)) = 2
    /\ IsPrefix(files[hist.moved_from].data, log_stream)
    /\ Description(Records(log_stream)[3]) = last.description
    /\ pos = Len(log_stream)

(***************************************************************************)
(* C24                                                                     *)
(***************************************************************************)
\* the base the caller gave last: the one assigned through the setter, else
\* the one passed to the constructor, else none
GivenBaseOrDefault ==
    IF hist.assigned_base.given THEN hist.assigned_base.value
    ELSE IF ctor.error_code_base.given THEN ctor.error_code_base.value
    ELSE LOGGER_CODE_BASE

\* C24: the code field of the record a write call appends on an open logger
\* is base + offset, offset being the call's argument and base the base last
\* assigned through the setter, else the base passed to the constructor,
\* else, and only when no base was passed, the default 900000.
C24_CodeIsBasePlusOffset ==
    [][last'.op \in OwnWriteOps /\ ~closed =>
          \A records \in {Records(log_stream')} :
          \A record \in {records[Len(records)]} :
              CodeField(record) = IntToStr(GivenBaseOrDefault + last'.offset)]_vars

(***************************************************************************)
(* C25                                                                     *)
(***************************************************************************)
\* C25: with a clock that does not go back, the overall.elapsed_seconds
\* record that closes a summary carries the clock's reading when the summary
\* is written minus the reading the constructor took, which is never
\* negative; no call (write, log, append, resync, save, move, close) changes
\* the start reading.
C25_ElapsedSinceStart ==
    [][/\ start_time' = start_time
       /\ start_time \in FirstReadings
       /\ (last'.op = "close" /\ ~closed =>
             \A records \in {Records(log_stream')} :
             \A record \in {records[Len(records)]} :
                 /\ Happened(<<"clock", <<>>>>)'
                 /\ now' - start_time >= 0
                 /\ Description(record) =
                       SummaryText(TxtOverallElapsed, now' - start_time)
                 /\ IsSummaryLine(record, TxtOverallElapsed \o <<":">>))]_vars

\* a move, a record, then close() one reading after the constructor's: the
\* last record is overall.elapsed_seconds: 1
C25_Witness ==
    /\ last.op = "close"
    /\ ~last.was_closed
    /\ Raised("none")
    /\ hist.moved_from # <<>>
    /\ now = start_time + 1
    /\ Len(Records(log_stream)) > SummaryLineCount
    /\ Description(LastRecord) = TxtOverallElapsed \o <<":", " ", "1">>

====
